---- MODULE Spec2Model ----
(***************************************************************************)
(* Model of the pro-mode solving pipeline of crack-coder:                  *)
(*   AgentWorkflow   (src/src/services/agentWorkflow.ts)                   *)
(*   CodeAgent, ExtractAgent (src/src/services/agents/extractAgent.ts)     *)
(*   VerifyAgent     (src/unnamed/part_001)                                *)
(*   ClassifyAgent   (src/unnamed/part_002)                                *)
(* One run of executeProWorkflow is a state machine whose steps are the    *)
(* synchronous stretches of code between two awaits.  Every model call is  *)
(* an environment input drawn from a small set of responses.               *)
(***************************************************************************)
EXTENDS Integers, Sequences, FiniteSets, TLC

\* ------------------------------------------------------------------------
\* Program constants and bounds
\* ------------------------------------------------------------------------

\* length of the model roster `models` in generateCodeSolutions / general flow
N == 3

\* `for (let attempt = 1; attempt <= 3; attempt++)`
MaxAttempts == 3

\* bound on the number of examples an extraction response may carry
MaxExamples == 1

Slots == 0 .. (N - 1)

NoStatement == [id |-> 0, examples |-> 0]
NoResult == [kind |-> "none"]
NoSolution == [kind |-> "pending"]
NoError == ""

\* ------------------------------------------------------------------------
\* ClassifyAgent.classifyQuestion
\* ------------------------------------------------------------------------

\* what the chat completion can do: reject, or answer with some text
ClassifyResponses == {"REJECT", "", "coding", "general", " Coding", "GENERAL ", "maybe", "coding."}

\* content?.trim().toLowerCase() on the responses above
TrimLower(s) ==
    CASE s = " Coding"  -> "coding"
      [] s = "GENERAL " -> "general"
      [] s = " True"    -> "true"
      [] s = "FALSE "   -> "false"
      [] OTHER          -> s

\* mutation: a transport failure or an unknown answer selects 'general'
classifyQuestion_DefaultGeneral(resp) ==
    IF resp = "REJECT" THEN "general"
    ELSE LET result == TrimLower(resp) IN
         IF result = "coding" THEN "coding" ELSE "general"

\* classifyQuestion: the answer trimmed and lower-cased, 'coding' by default
classifyQuestion(resp) ==
    IF resp = "REJECT" THEN "coding"
    ELSE LET result == TrimLower(resp) IN
         IF result = "coding" THEN "coding"
         ELSE IF result = "general" THEN "general"
         ELSE "coding"

\* ------------------------------------------------------------------------
\* VerifyAgent.verifyExtractedText
\* ------------------------------------------------------------------------

VerifyResponses == {"REJECT", "", "true", "false", " True", "FALSE ", "yes"}

\* mutation: the catch answers true
verifyExtractedText_ErrorIsTrue(resp) ==
    IF resp = "REJECT" THEN TRUE ELSE TrimLower(resp) = "true"

\* verifyExtractedText: true only for the answer that is 'true' once trimmed
\* and lower-cased; false for every other answer and in the catch
verifyExtractedText(resp) ==
    IF resp = "REJECT" THEN FALSE
    ELSE LET result == TrimLower(resp) IN
         IF result = "true" THEN TRUE
         ELSE IF result = "false" THEN FALSE
         ELSE FALSE

\* ------------------------------------------------------------------------
\* ExtractAgent.extractProblemText
\* ------------------------------------------------------------------------

\* `examples` field of the parsed JSON: absent, present but not an array, or
\* an array of len entries
ExampleFields ==
    [present : {FALSE}, isArray : {FALSE}, len : {0}]
    \cup [present : {TRUE}, isArray : {FALSE}, len : {0}]
    \cup [present : {TRUE}, isArray : {TRUE}, len : 0 .. MaxExamples]

ExtractResponses ==
    [kind : {"reject", "empty", "badjson"}, title : {FALSE}, description : {FALSE},
     examples : {[present |-> FALSE, isArray |-> FALSE, len |-> 0]}]
    \cup
    [kind : {"json"}, title : BOOLEAN, description : BOOLEAN, examples : ExampleFields]

\* the entries of an `examples` array, named by their position in the answer
Items(field) == [k \in 1 .. field.len |-> k]

\* mutation: the last entry of the array is lost
NormalizeExamples_DropLast(field) ==
    IF field.isArray THEN [k \in 1 .. (field.len - 1) |-> k] ELSE <<>>

\* `if (!Array.isArray(extracted.examples)) extracted.examples = []`
NormalizeExamples(field) == IF field.isArray THEN Items(field) ELSE <<>>

\* extractProblemText throws `new Error(...)`
ExtractionError(error) ==
    [ok |-> FALSE, title |-> FALSE, description |-> FALSE, items |-> <<>>,
     examples |-> 0, error |-> error]

\* mutation: only the title is validated
extractProblemText_TitleOnly(resp) ==
    IF resp.kind # "json" \/ ~resp.title
    THEN ExtractionError("extract failed: format")
    ELSE [ok |-> TRUE, title |-> resp.title, description |-> resp.description,
          items |-> NormalizeExamples(resp.examples),
          examples |-> Len(NormalizeExamples(resp.examples)),
          error |-> NoError]

\* mutation: an `examples` field that is not an array is a format error
extractProblemText_StrictExamples(resp) ==
    IF resp.kind # "json" \/ ~resp.title \/ ~resp.description \/ ~resp.examples.isArray
    THEN ExtractionError("extract failed: format")
    ELSE [ok |-> TRUE, title |-> resp.title, description |-> resp.description,
          items |-> Items(resp.examples), examples |-> resp.examples.len,
          error |-> NoError]

\* result of extractProblemText: the parsed object as a statement (ok), with
\* whether its title and description are non-empty, its examples (items) and
\* their number, or a thrown Error (error)
extractProblemText(resp) ==
    IF resp.kind = "reject" THEN ExtractionError("extract failed: transport")
    ELSE IF resp.kind = "empty" THEN ExtractionError("extract failed: no content")
    ELSE IF resp.kind = "badjson" THEN ExtractionError("extract failed: format")
    ELSE IF ~resp.title \/ ~resp.description
         THEN ExtractionError("extract failed: format")
    ELSE [ok |-> TRUE, title |-> resp.title, description |-> resp.description,
          items |-> NormalizeExamples(resp.examples),
          examples |-> Len(NormalizeExamples(resp.examples)),
          error |-> NoError]

\* ------------------------------------------------------------------------
\* CodeAgent.generateSingleSolution / runTests
\* ------------------------------------------------------------------------

\* what one generation request can do: reject (with or without a message),
\* answer empty, answer with unparseable text, answer JSON lacking a required
\* field, answer complete JSON, answer complete JSON that also carries the
\* `tests` array the prompt asks for (one entry, ok: true)
GenResponses ==
    {"reject", "rejectNoMessage", "empty", "badjson", "missing", "ok", "okWithTests"}

\* the responses that parse and carry every required field
OkResponses == {"ok", "okWithTests"}

\* the `tests` array of the parsed JSON itself
ParsedTests(resp) == IF resp = "okWithTests" THEN <<[ok |-> "true"]>> ELSE <<>>

\* runTests: one entry per example, `ok: undefined`
runTests(examples) == [k \in 1 .. examples |-> [ok |-> "undefined"]]

\* the parsed payload of a complete answer to the request of slot i
Parsed(i) ==
    [approach |-> "approach" \o ToString(i), code |-> "code" \o ToString(i),
     timeComplexity |-> "time" \o ToString(i), spaceComplexity |-> "space" \o ToString(i)]

\* outcome of generateSingleSolution(problemText, model) for slot i:
\* a thrown Error (message) or the parsed solution, with `tests` added when
\* the statement has examples
generateSingleSolution(problemText, i, resp) ==
    CASE resp = "reject"          -> [thrown |-> TRUE, message |-> "transport error"]
      [] resp = "rejectNoMessage" -> [thrown |-> TRUE, message |-> NoError]
      [] resp = "empty"           -> [thrown |-> TRUE, message |-> "no solution generated"]
      [] resp = "badjson"         -> [thrown |-> TRUE, message |-> "format error"]
      [] resp = "missing"         -> [thrown |-> TRUE, message |-> "format error"]
      [] OTHER                    ->
           [thrown |-> FALSE,
            solution |-> IF problemText.examples > 0
                         THEN Parsed(i) @@ [tests |-> runTests(problemText.examples)]
                         ELSE IF resp = "okWithTests"
                         THEN Parsed(i) @@ [tests |-> ParsedTests(resp)]
                         ELSE Parsed(i)]

\* error?.message || '代码生成失败'
MessageOr(message, default) == IF message = NoError THEN default ELSE message

\* solution.tests.filter(t => t.ok === true).length
CountPassed(tests) == Cardinality({k \in DOMAIN tests : tests[k].ok = "true"})


\* ------------------------------------------------------------------------
\* CodeAgent.generateCodeSolutions: pieces of the fan-out
\* ------------------------------------------------------------------------

\* `let tasks = models.map(...)` followed, in the same synchronous stretch, by
\* `tasks[index].status = 'running'` of every callback of models.map
InitialTask(problemText) ==
    [status |-> "pending", error |-> NoError, testsPassed |-> 0,
     testsTotal |-> problemText.examples]

\* mutation: a failing candidate also fails every candidate still running
TasksAfter_CancelOthers(tasks, i, res) ==
    IF res.thrown
    THEN [j \in Slots |->
            IF j = i \/ tasks[j].status = "running"
            THEN [tasks[j] EXCEPT !.status = "failed",
                                  !.error = MessageOr(res.message, "generation failed")]
            ELSE tasks[j]]
    ELSE [tasks EXCEPT ![i].status = "success"]

\* the writes of candidate i's callback to the tasks array once its
\* generateSingleSolution has settled with res
TasksAfter(tasks, i, res) ==
    IF res.thrown
    THEN [tasks EXCEPT ![i].status = "failed",
                       ![i].error = MessageOr(res.message, "generation failed")]
    ELSE [tasks EXCEPT ![i].status = "success",
                       ![i].testsPassed = IF "tests" \in DOMAIN res.solution
                                          THEN CountPassed(res.solution.tests) ELSE 0]

\* mutation: every returned value carries index 0
CandidateSolution_IndexZero(i, res) ==
    IF res.thrown
    THEN [ok |-> FALSE, error |-> MessageOr(res.message, "generation failed"), index |-> 0]
    ELSE [ok |-> TRUE, data |-> res.solution, index |-> 0]

\* the value candidate i's callback returns
CandidateSolution(i, res) ==
    IF res.thrown
    THEN [ok |-> FALSE, error |-> MessageOr(res.message, "generation failed"), index |-> i]
    ELSE [ok |-> TRUE, data |-> res.solution, index |-> i]

\* mutation: the values are collected in completion order
PromiseAll_CompletionOrder(settled, order) == [i \in Slots |-> settled[order[i + 1]]]

\* Promise.all: the array of the callbacks' values, in the order of `models`
PromiseAll(settled, order) == [i \in Slots |-> settled[i]]

\* a callback of models.map whose promise rejected
Rejected == [kind |-> "rejected"]

\* the Error a throwing progress callback raises
CallbackError == [thrown |-> TRUE, message |-> "callback error"]

\* how the synchronous first stretch of one callback can end: its request is
\* issued ("ok"); onProgress threw and the catch returned a failure
\* ("failed"); onProgress threw again inside the catch ("rejected")
StartChoices(hasCallback) ==
    IF hasCallback THEN [Slots -> {"ok", "failed", "rejected"}]
    ELSE {[i \in Slots |-> "ok"]}

\* the task of slot i once its first stretch has ended with choice c
StartedTask(problemText, c) ==
    IF c = "ok"
    THEN [InitialTask(problemText) EXCEPT !.status = "running"]
    ELSE [InitialTask(problemText) EXCEPT !.status = "failed",
                                          !.error = CallbackError.message]

\* the tasks array while the callbacks of slots 0 .. k-1 have run their first
\* stretch and slot k is at stage ("pending", "running" or "done")
TasksDuringStart(problemText, s, k, stage) ==
    [j \in Slots |->
        IF j < k \/ (j = k /\ stage = "done") THEN StartedTask(problemText, s[j])
        ELSE IF j = k /\ stage = "running" THEN StartedTask(problemText, "ok")
        ELSE InitialTask(problemText)]

\* the snapshots handed to onProgress by the first stretch of slots k .. N-1
RECURSIVE StartSnapshotsFrom(_, _, _)
StartSnapshotsFrom(problemText, s, k) ==
    IF k >= N THEN <<>>
    ELSE <<TasksDuringStart(problemText, s, k, "running")>>
         \o (IF s[k] = "ok" THEN <<>>
             ELSE <<TasksDuringStart(problemText, s, k, "done")>>)
         \o StartSnapshotsFrom(problemText, s, k + 1)

\* every snapshot handed to onProgress before the first await: lines 157-169
StartSnapshots(problemText, s, hasCallback) ==
    IF hasCallback
    THEN <<TasksDuringStart(problemText, s, 0, "pending")>>
         \o StartSnapshotsFrom(problemText, s, 0)
    ELSE <<>>

\* what a callback whose first stretch ended with choice c has returned
StartedValue(i, c) ==
    CASE c = "ok"     -> NoSolution
      [] c = "failed" -> CandidateSolution(i, CallbackError)
      [] OTHER        -> Rejected

\* mutation: the callback writes the array back from a copy taken when the
\* requests were issued, in which every other slot is still running
CallbackAfter_StaleCopy(tasks, i, res, hasCallback, t1, t2) ==
    LET first == TasksAfter(tasks, i, res) IN
    [tasks |-> [j \in Slots |->
                   IF j = i THEN first[j]
                   ELSE [first[j] EXCEPT !.status = "running", !.error = NoError]],
     value |-> CandidateSolution(i, res),
     snaps |-> <<>>]

\* the rest of candidate i's callback once its request settled with res:
\* t1, t2 tell whether the first and the second call of onProgress throw
CallbackAfter(tasks, i, res, hasCallback, t1, t2) ==
    LET first == TasksAfter(tasks, i, res)
        second == TasksAfter(first, i, CallbackError) IN
    IF ~hasCallback
    THEN [tasks |-> first, value |-> CandidateSolution(i, res), snaps |-> <<>>]
    ELSE IF res.thrown
    THEN [tasks |-> first,
          value |-> IF t1 THEN Rejected ELSE CandidateSolution(i, res),
          snaps |-> <<first>>]
    ELSE IF ~t1
    THEN [tasks |-> first, value |-> CandidateSolution(i, res), snaps |-> <<first>>]
    ELSE [tasks |-> second,
          value |-> IF t2 THEN Rejected ELSE CandidateSolution(i, CallbackError),
          snaps |-> <<first, second>>]

\* ------------------------------------------------------------------------
\* AgentWorkflow
\* ------------------------------------------------------------------------

\* `new CodeAgent(openai, language)`: no progress callback is passed
WorkflowOnProgress == "undefined"

\* mutation: a statement once assigned is kept
AssignExtracted_KeepFirst(old, new) == IF old = NoStatement THEN new ELSE old

\* `extractedText = await this.extractAgent.extractProblemText(screenshots)`
AssignExtracted(old, new) == new

\* mutation: the verification is issued whatever the extraction did
ExtractionSucceeded_Always(res) == TRUE

\* the await of extractProblemText resolved (TRUE) or threw (FALSE)
ExtractionSucceeded(res) == res.ok

\* updateStatus: the state handed to onStatusUpdate
updateStatus(step, progress) == [currentStep |-> step, progress |-> progress]

\* mutation: the general branch is never taken
IsCodingBranch_Always(questionType) == TRUE

\* `if (questionType === 'coding')`
IsCodingBranch(questionType) == questionType = "coding"

\* mutation: a refused verification never throws
VerificationExhausted_Never(isValid, attempt) == FALSE

\* `else if (attempt === 3) throw` after a verification answered isValid
VerificationExhausted(isValid, attempt) == ~isValid /\ attempt = 3

\* mutation: the catch of the loop rethrows on every attempt
Rethrows_Always(attempt) == TRUE

\* `catch (error) { if (attempt === 3) throw error; }`
Rethrows(attempt) == attempt = 3

\* the loop condition `attempt <= 3`, evaluated after attempt++
LoopContinues(attempt) == attempt <= MaxAttempts

\* progress of the "re-extracting" update
RetryProgress(attempt) == 40 + attempt * 5

\* mutation: the catch reports the run as successful
CatchResult_Success(message) ==
    [success |-> TRUE, error |-> MessageOr(message, "workflow failed")]

\* the catch of executeProWorkflow
CatchResult(message) ==
    [success |-> FALSE, error |-> MessageOr(message, "workflow failed")]

\* solutions.find(sol => sol.ok): the entry at the lowest position with ok
FindOk(solutions) ==
    LET oks == {i \in Slots : solutions[i].ok} IN
    IF oks = {} THEN [found |-> FALSE]
    ELSE [found |-> TRUE, sol |-> solutions[CHOOSE i \in oks : \A j \in oks : i <= j]]

\* mutation: the data of the first success is returned under the index of
\* the candidate before it
selectBestCodeSolution_IndexBefore(solutions) ==
    LET successfulSolution == FindOk(solutions) IN
    IF successfulSolution.found
    THEN [failed |-> FALSE,
          data |-> successfulSolution.sol.data,
          index |-> IF successfulSolution.sol.index > 0
                    THEN successfulSolution.sol.index - 1 ELSE 0,
          reason |-> "first success"]
    ELSE [failed |-> TRUE,
          data |-> [approach |-> "generation failed",
                    code |-> "Error: " \o solutions[0].error,
                    timeComplexity |-> "N/A",
                    spaceComplexity |-> "N/A"],
          index |-> 0,
          reason |-> "all failed"]

\* selectBestCodeSolution: the first success, or the synthesized failure
selectBestCodeSolution(solutions) ==
    LET successfulSolution == FindOk(solutions) IN
    IF successfulSolution.found
    THEN [failed |-> FALSE,
          data |-> successfulSolution.sol.data,
          index |-> successfulSolution.sol.index,
          reason |-> "first success"]
    ELSE [failed |-> TRUE,
          data |-> [approach |-> "generation failed",
                    code |-> "Error: " \o solutions[0].error,
                    timeComplexity |-> "N/A",
                    spaceComplexity |-> "N/A"],
          index |-> 0,
          reason |-> "all failed"]

\* mutation: a selection without any success is reported as a failed run
CodingResult_FatalWhenAllFailed(bestSolution) ==
    [success |-> ~bestSolution.failed,
     data |-> [payload |-> bestSolution.data, responseType |-> "code"],
     selectedResult |-> [index |-> bestSolution.index, reason |-> bestSolution.reason]]

\* the value executeCodingWorkflow returns
CodingResult(bestSolution) ==
    [success |-> TRUE,
     data |-> [payload |-> bestSolution.data, responseType |-> "code"],
     selectedResult |-> [index |-> bestSolution.index, reason |-> bestSolution.reason]]

\* mutation: the run fails when an answer request failed
GeneralResult_FailsWhenAnyFailed(results) ==
    [success |-> \A i \in Slots : results[i].ok,
     data |-> [pro |-> TRUE, results |-> results]]

\* the return value of executeGeneralWorkflow
GeneralResult(results) ==
    [success |-> TRUE, data |-> [pro |-> TRUE, results |-> results]]


\* ------------------------------------------------------------------------
\* State of one run of executeProWorkflow
\* ------------------------------------------------------------------------
VARIABLES
    pc,             \* where the run is suspended: idle, classifying, extracting,
                    \* verifying, generating, answering, done, rejected
    attempt,        \* the loop variable of the extraction/verification loop
    extractedText,  \* the local `extractedText` (NoStatement for null)
    onProgress,     \* CodeAgent.onProgress: "undefined" or "callback"
    tasks,          \* the `tasks` array of generateCodeSolutions
    settled,        \* the values the fan-out callbacks have returned so far
    solutions,      \* the array generateCodeSolutions returned
    results,        \* the values the general-branch callbacks have returned
    answerOutcome,  \* what each answer request did ("none" while pending)
    result,         \* the WorkflowResult the run returned (NoResult before)
    emitted,        \* the states handed to onStatusUpdate, in order
    snapshots,      \* the task arrays handed to onProgress, in order
    questionType,   \* what classifyQuestion returned ("none" before)
    classifyResp,   \* what the classification request did ("none" before)
    calls,          \* number of calls issued to each agent
    inflight,       \* the extraction / verification calls issued and not settled
    extracts,       \* the extraction calls settled so far: attempt, outcome,
                    \* statement returned
    extractOk,      \* number of extractions that returned a statement
    verdicts,       \* the Verifier's answers: statement id, attempt, answer
    genArg,         \* the statement generateCodeSolutions was invoked with
    genOutcome,     \* what each generation request did ("none" while pending)
    codeCorrect,    \* whether the code a request returned solves the examples
    order,          \* slots in the order their callbacks completed
    thrown          \* whether an exception reached the catch of executeProWorkflow

\* ------------------------------------------------------------------------
\* State of the main process (handlers of the screenshot queue)
\* ------------------------------------------------------------------------
VARIABLES
    isProcessing,   \* the module variable isProcessing
    queueLen,       \* screenshotQueue.length
    takesInFlight,  \* handleTakeScreenshot invocations suspended before the push
    resetsInFlight, \* handleResetQueue invocations suspended in the unlink loop
    proMode,        \* the module variable proMode
    fastRuns,       \* runs of handleProcessScreenshots awaiting their model call
    proRuns,        \* pro-mode runs of triggerProcess awaiting their model calls
    nextRun,        \* number of runs started so far
    events,         \* 'processing-started' / 'processing-complete' sent, in order
    superseded,     \* runs that were in flight when a reset was triggered
    dropped,        \* runs whose result was discarded instead of sent
    currentModelIndex, \* the module variable currentModelIndex
    notices,        \* 'pro-mode-updated' / 'model-updated' sent, in order
    commandLog,     \* the /model/set and /pro/toggle requests handled, in order
    flows           \* the /flow requests: where each one is, the status it was
                    \* answered with, and what it has done so far, in order

\* ------------------------------------------------------------------------
\* State of one call of each agent taken on its own
\* ------------------------------------------------------------------------
VARIABLES
    agentInput,     \* what the model does in the call: the verification answer,
                    \* the extraction answer, and the loop's attempt number
    verifyReply,    \* what verifyExtractedText returned, and what the loop does next
    extractReply    \* what extractProblemText returned or threw

wfVars == <<pc, attempt, extractedText, onProgress, tasks, settled, solutions, results, answerOutcome,
            result, emitted, snapshots, questionType, classifyResp, calls, inflight,
            extracts, extractOk, verdicts, genArg, genOutcome, codeCorrect, order,
            thrown>>

\* the state the command server's model and pro-mode commands work on,
\* besides proMode
commandVars == <<currentModelIndex, notices, commandLog, flows>>

mainVars == <<isProcessing, queueLen, takesInFlight, resetsInFlight, proMode, fastRuns,
              proRuns, nextRun, events, superseded, dropped, commandVars>>

agentVars == <<agentInput, verifyReply, extractReply>>

\* ------------------------------------------------------------------------
\* State of the PythonDaemon singleton and of its child processes
\* ------------------------------------------------------------------------
VARIABLES
    dproc,          \* this.process: 0 for null, else the number of a child process
    procs,          \* every child process: its state, loaded_code, unread stdin
    requests,       \* the calls of load / run, in call order
    replies,        \* the value each call resolved to
    pending,        \* the ids in this.pending
    nextId,         \* this.nextId
    ranWith         \* the loaded_code the daemon had when it handled each run

daemonVars == <<dproc, procs, requests, replies, pending, nextId, ranWith>>

vars == <<wfVars, mainVars, agentVars, daemonVars>>

\* the state of a run that has not started
InitWorkflow ==
    /\ pc = "idle"
    /\ attempt = 0
    /\ extractedText = NoStatement
    /\ tasks = [i \in Slots |-> InitialTask(NoStatement)]
    /\ settled = [i \in Slots |-> NoSolution]
    /\ solutions = [i \in Slots |-> NoSolution]
    /\ results = [i \in Slots |-> NoSolution]
    /\ answerOutcome = [i \in Slots |-> "none"]
    /\ result = NoResult
    /\ emitted = <<>>
    /\ snapshots = <<>>
    /\ questionType = "none"
    /\ classifyResp = "none"
    /\ calls = [classify |-> 0, extract |-> 0, verify |-> 0, generate |-> 0, answer |-> 0]
    /\ inflight = {}
    /\ extracts = {}
    /\ extractOk = 0
    /\ verdicts = {}
    /\ genArg = NoStatement
    /\ genOutcome = [i \in Slots |-> "none"]
    /\ codeCorrect = [i \in Slots |-> "none"]
    /\ order = <<>>
    /\ thrown = FALSE

\* `const MODEL_CANDIDATES = [...]`, positions 0 .. 3
MODEL_CANDIDATES ==
    <<"openai/gpt-5-chat", "openai/o4-mini", "openai/o4-mini-high", "openai/o3">>

\* /model/set and /pro/toggle requests handled in one behaviour
MaxCommands == 3

\* /flow requests received in one behaviour
MaxFlows == 2

FlowIds == 1 .. MaxFlows

\* a /flow request that has not been received
NoFlow == [at |-> "unreceived", status |-> 0, trace |-> <<>>]

\* the main process after start-up
InitMain ==
    /\ isProcessing = FALSE
    /\ queueLen = 0
    /\ takesInFlight = 0
    /\ resetsInFlight = 0
    /\ proMode = FALSE
    /\ fastRuns = {}
    /\ proRuns = {}
    /\ nextRun = 0
    /\ events = <<>>
    /\ superseded = {}
    /\ dropped = {}
    /\ currentModelIndex = 0
    /\ notices = <<>>
    /\ commandLog = <<>>
    /\ flows = [f \in FlowIds |-> NoFlow]

\* an `examples` array may hold more entries than a statement of a run
MaxItems == 2

\* the answers an extraction call is tried on
ExtractInputs ==
    [kind : {"reject", "empty", "badjson"}, title : {FALSE}, description : {FALSE},
     examples : {[present |-> FALSE, isArray |-> FALSE, len |-> 0]}]
    \cup
    [kind : {"json"}, title : BOOLEAN, description : BOOLEAN,
     examples : [present : {FALSE}, isArray : {FALSE}, len : {0}]
                \cup [present : {TRUE}, isArray : {FALSE}, len : {0}]
                \cup [present : {TRUE}, isArray : {TRUE}, len : 0 .. MaxItems]]

NoVerifyReply == [done |-> FALSE, value |-> FALSE, next |-> "none"]
NoExtractReply == [done |-> FALSE, value |-> ExtractionError(NoError)]

\* calls of load / run in one behaviour
MaxCalls == 2

\* child processes spawned in one behaviour
MaxProcs == 2

CallIds == 1 .. MaxCalls
ProcIds == 1 .. MaxProcs

\* the programs a caller loads: the empty text, two programs that print
\* their own name, one that calls sys.exit(), one that never ends
Codes == {"", "echo", "other", "exit", "loop"}

NoCall == [cmd |-> "none", code |-> "", phase |-> "unissued", proc |-> 0, id |-> 0]
NoReply == [id |-> 0, ok |-> FALSE, error |-> "none", stdout |-> ""]
NoProc == [state |-> "unborn", loaded |-> "None", stdin |-> <<>>]

\* the singleton after construction: no process, nextId = 1, nothing pending
InitDaemon ==
    /\ dproc = 0
    /\ procs = [p \in ProcIds |-> NoProc]
    /\ requests = [k \in CallIds |-> NoCall]
    /\ replies = [k \in CallIds |-> NoReply]
    /\ pending = {}
    /\ nextId = 1
    /\ ranWith = [k \in CallIds |-> "unhandled"]

\* no agent is being called on its own
InitNoCall ==
    /\ agentInput = [verify |-> "REJECT",
                     extract |-> [kind |-> "reject", title |-> FALSE, description |-> FALSE,
                                  examples |-> [present |-> FALSE, isArray |-> FALSE,
                                                len |-> 0]],
                     attempt |-> 1]
    /\ verifyReply = NoVerifyReply
    /\ extractReply = NoExtractReply

Init ==
    /\ InitWorkflow
    /\ onProgress = WorkflowOnProgress
    /\ InitMain
    /\ InitNoCall
    /\ InitDaemon

\* the fan-out state, which only generateCodeSolutions touches
fanout == <<tasks, settled, solutions, snapshots, genArg, genOutcome, codeCorrect, order>>

\* the history of the extraction/verification loop
loopLog == <<inflight, extracts>>

\* an exception propagates to the catch of executeProWorkflow, which returns
Throw(message, emittedNow) ==
    /\ pc' = "done"
    /\ result' = CatchResult(message)
    /\ thrown' = TRUE
    /\ emitted' = emittedNow
    /\ UNCHANGED fanout

\* mutation: the classification request is issued twice
StartRun_ClassifiesTwice ==
    /\ pc = "idle"
    /\ emitted' = Append(emitted, updateStatus("classifying", 10))
    /\ calls' = [calls EXCEPT !.classify = @ + 2]
    /\ pc' = "classifying"
    /\ UNCHANGED <<attempt, extractedText, onProgress, fanout, results, answerOutcome, result,
                   questionType, classifyResp, loopLog, extractOk, verdicts, thrown>>
    /\ UNCHANGED <<mainVars, agentVars, daemonVars>>

\* executeProWorkflow up to `await this.classifyQuestion(screenshots)`
StartRun ==
    /\ pc = "idle"
    /\ emitted' = Append(emitted, updateStatus("classifying", 10))
    /\ calls' = [calls EXCEPT !.classify = @ + 1]
    /\ pc' = "classifying"
    /\ UNCHANGED <<attempt, extractedText, onProgress, fanout, results, answerOutcome, result,
                   questionType, classifyResp, loopLog, extractOk, verdicts, thrown>>
    /\ UNCHANGED <<mainVars, agentVars, daemonVars>>

\* the classification settles; the run enters executeCodingWorkflow up to the
\* first extraction call, or executeGeneralWorkflow up to its fan-out
ClassifyReturn ==
    /\ pc = "classifying"
    /\ \E resp \in ClassifyResponses :
         /\ classifyResp' = resp
         /\ questionType' = classifyQuestion(resp)
         /\ IF IsCodingBranch(questionType')
            THEN /\ emitted' = Append(emitted, updateStatus("extracting", 30))
                 /\ attempt' = 1
                 /\ calls' = [calls EXCEPT !.extract = @ + 1]
                 /\ inflight' = {[kind |-> "extract", attempt |-> 1]}
                 /\ pc' = "extracting"
            ELSE /\ emitted' = Append(emitted, updateStatus("answering", 50))
                 /\ attempt' = attempt
                 /\ calls' = [calls EXCEPT !.answer = @ + N]
                 /\ inflight' = inflight
                 /\ pc' = "answering"
    /\ UNCHANGED <<extractedText, onProgress, fanout, results, answerOutcome, result, extracts,
                   extractOk, verdicts, thrown>>
    /\ UNCHANGED <<mainVars, agentVars, daemonVars>>

\* generateCodeSolutions up to the await of Promise.all: the tasks array is
\* created and every callback of models.map runs to its first await; s tells
\* how each first stretch ends
FanOutStart(text, s) ==
    /\ genArg' = text
    /\ calls' = [calls EXCEPT !.generate = @ + 1]
    /\ tasks' = [i \in Slots |-> StartedTask(text, s[i])]
    /\ settled' = [i \in Slots |-> StartedValue(i, s[i])]
    /\ snapshots' = snapshots \o StartSnapshots(text, s, onProgress = "callback")
    /\ pc' = "generating"
    /\ UNCHANGED <<solutions, genOutcome, codeCorrect, order>>

\* after the loop: the null check, then the call of generateCodeSolutions
AfterLoop(text, emittedNow) ==
    IF text = NoStatement
    THEN /\ Throw("no valid problem text", emittedNow)
         /\ UNCHANGED calls
    ELSE /\ emitted' = Append(emittedNow, updateStatus("generating", 70))
         /\ \E s \in StartChoices(onProgress = "callback") : FanOutStart(text, s)
         /\ UNCHANGED <<result, thrown>>

\* mutation: the loop variable is not incremented
NextAttempt_NoIncrement(a) == a

\* `attempt++`
NextAttempt(a) == a + 1

\* the end of one loop iteration that neither broke nor threw: attempt++, then
\* the next extraction call or the code after the loop; settledCalls are the
\* calls that have settled in this step
NextIteration(text, emittedNow, settledCalls) ==
    /\ attempt' = NextAttempt(attempt)
    /\ IF LoopContinues(attempt')
       THEN /\ calls' = [calls EXCEPT !.extract = @ + 1]
            /\ inflight' = (inflight \ settledCalls)
                               \cup {[kind |-> "extract", attempt |-> attempt']}
            /\ pc' = "extracting"
            /\ emitted' = emittedNow
            /\ UNCHANGED <<fanout, result, thrown>>
       ELSE /\ inflight' = inflight \ settledCalls
            /\ AfterLoop(text, emittedNow)

\* an extraction call settles: lines 86-88, or the catch of line 100
ExtractReturn ==
    /\ pc = "extracting"
    /\ \E resp \in ExtractResponses :
         LET res == extractProblemText(resp)
             me == {[kind |-> "extract", attempt |-> attempt]} IN
         /\ extracts' = extracts \cup
                {[attempt |-> attempt, ok |-> res.ok,
                  text |-> IF res.ok THEN [id |-> attempt, examples |-> res.examples]
                           ELSE NoStatement]}
         /\ IF ExtractionSucceeded(res)
            THEN /\ extractedText' = AssignExtracted(extractedText,
                                         [id |-> attempt, examples |-> res.examples])
                 /\ extractOk' = extractOk + 1
                 /\ emitted' = Append(emitted, updateStatus("verifying", 50))
                 /\ calls' = [calls EXCEPT !.verify = @ + 1]
                 /\ inflight' = (inflight \ me) \cup {[kind |-> "verify", attempt |-> attempt]}
                 /\ pc' = "verifying"
                 /\ UNCHANGED <<attempt, fanout, result, thrown>>
            ELSE /\ UNCHANGED <<extractedText, extractOk>>
                 /\ IF Rethrows(attempt)
                    THEN /\ Throw(res.error, emitted)
                         /\ inflight' = inflight \ me
                         /\ UNCHANGED <<attempt, calls>>
                    ELSE NextIteration(extractedText, emitted, me)
    /\ UNCHANGED <<onProgress, results, answerOutcome, questionType, classifyResp, verdicts>>
    /\ UNCHANGED <<mainVars, agentVars, daemonVars>>

\* a verification call settles: lines 93-99, the catch of line 100, and on
\* break the code after the loop
VerifyReturn ==
    /\ pc = "verifying"
    /\ \E resp \in VerifyResponses :
         LET isValid == verifyExtractedText(resp)
             me == {[kind |-> "verify", attempt |-> attempt]} IN
         /\ verdicts' = verdicts \cup
                {[id |-> extractedText.id, attempt |-> attempt, valid |-> isValid]}
         /\ IF isValid
            THEN /\ attempt' = attempt
                 /\ inflight' = inflight \ me
                 /\ AfterLoop(extractedText, emitted)
            ELSE IF VerificationExhausted(isValid, attempt)
            THEN IF Rethrows(attempt)
                 THEN /\ Throw("verification exhausted", emitted)
                      /\ inflight' = inflight \ me
                      /\ UNCHANGED <<attempt, calls>>
                 ELSE NextIteration(extractedText, emitted, me)
            ELSE NextIteration(extractedText,
                     Append(emitted, updateStatus("re-extracting", RetryProgress(attempt))),
                     me)
    /\ UNCHANGED <<extractedText, onProgress, extracts, extractOk, results, answerOutcome,
                   questionType, classifyResp>>
    /\ UNCHANGED <<mainVars, agentVars, daemonVars>>

\* whether the code of a parsed answer solves the statement's examples
Correctness(resp) == IF resp \in OkResponses THEN {"correct", "wrong"} ELSE {"none"}

\* the generation request of slot i settles: the rest of its callback
CandidateReturn(i) ==
    /\ pc \in {"generating", "rejected"}
    /\ tasks[i].status = "running"
    /\ genOutcome[i] = "none"
    /\ \E resp \in GenResponses, t1, t2 \in BOOLEAN :
         LET res == generateSingleSolution(genArg, i, resp)
             after == CallbackAfter(tasks, i, res, onProgress = "callback", t1, t2) IN
         /\ onProgress = "callback" \/ (~t1 /\ ~t2)
         /\ tasks' = after.tasks
         /\ settled' = [settled EXCEPT ![i] = after.value]
         /\ snapshots' = snapshots \o after.snaps
         /\ genOutcome' = [genOutcome EXCEPT ![i] = resp]
         /\ \E c \in Correctness(resp) : codeCorrect' = [codeCorrect EXCEPT ![i] = c]
    /\ order' = Append(order, i)
    /\ UNCHANGED <<pc, attempt, extractedText, onProgress, solutions, results, answerOutcome, result,
                   emitted, questionType, classifyResp, calls, loopLog, extractOk,
                   verdicts, genArg, thrown>>
    /\ UNCHANGED <<mainVars, agentVars, daemonVars>>

\* mutation: Promise.all resolves only when every candidate succeeded
AllReturned_AllSucceeded ==
    \A i \in Slots : settled[i] \notin {NoSolution, Rejected} /\ settled[i].ok

\* every callback has returned a value
AllReturned == \A i \in Slots : settled[i] \notin {NoSolution, Rejected}

\* Promise.all resolves: generateCodeSolutions returns, lines 114-134
GenerationJoin ==
    /\ pc = "generating"
    /\ questionType = "coding"
    /\ AllReturned
    /\ solutions' = PromiseAll(settled, order)
    /\ LET bestSolution == selectBestCodeSolution(solutions') IN
       /\ emitted' = emitted \o <<updateStatus("selecting", 90), updateStatus("done", 100)>>
       /\ result' = CodingResult(bestSolution)
    /\ pc' = "done"
    /\ UNCHANGED <<attempt, extractedText, onProgress, tasks, settled, snapshots, results, answerOutcome,
                   questionType, classifyResp, calls, loopLog, extractOk, verdicts,
                   genArg, genOutcome, codeCorrect, order, thrown>>
    /\ UNCHANGED <<mainVars, agentVars, daemonVars>>

\* ------------------------------------------------------------------------
\* General branch
\* ------------------------------------------------------------------------

\* what one answer request (processScreenshots) can do
AnswerResponses == {"reject", "code", "answer", "other", "badjson"}

\* processScreenshots: failures are rethrown as a plain object without message
processScreenshots(resp) ==
    CASE resp = "reject" -> [thrown |-> TRUE, message |-> NoError]
      [] resp = "code"   -> [thrown |-> FALSE, data |-> [responseType |-> "code"]]
      [] resp = "answer" -> [thrown |-> FALSE, data |-> [responseType |-> "answer"]]
      [] OTHER           -> [thrown |-> FALSE, data |-> [responseType |-> "raw"]]

\* the value the callback of slot i returns in executeGeneralWorkflow
AnswerResult(i, res) ==
    IF res.thrown
    THEN [ok |-> FALSE, error |-> MessageOr(res.message, "error"), index |-> i]
    ELSE [ok |-> TRUE, data |-> res.data, index |-> i]

\* the answer request of slot i settles
AnswerReturn(i) ==
    /\ pc = "answering"
    /\ results[i] = NoSolution
    /\ \E resp \in AnswerResponses :
         /\ results' = [results EXCEPT ![i] = AnswerResult(i, processScreenshots(resp))]
         /\ answerOutcome' = [answerOutcome EXCEPT ![i] = resp]
    /\ UNCHANGED <<pc, attempt, extractedText, onProgress, fanout, result, emitted,
                   questionType, classifyResp, calls, loopLog, extractOk, verdicts, thrown>>
    /\ UNCHANGED <<mainVars, agentVars, daemonVars>>

\* Promise.all resolves in executeGeneralWorkflow: lines 154-159
AnswerJoin ==
    /\ pc = "answering"
    /\ \A i \in Slots : results[i] # NoSolution
    /\ emitted' = Append(emitted, updateStatus("done", 100))
    /\ result' = GeneralResult(results)
    /\ pc' = "done"
    /\ UNCHANGED <<attempt, extractedText, onProgress, fanout, results, answerOutcome, questionType,
                   classifyResp, calls, loopLog, extractOk, verdicts, thrown>>
    /\ UNCHANGED <<mainVars, agentVars, daemonVars>>

Next ==
    \/ StartRun
    \/ ClassifyReturn
    \/ ExtractReturn
    \/ VerifyReturn
    \/ \E i \in Slots : CandidateReturn(i)
    \/ GenerationJoin
    \/ \E i \in Slots : AnswerReturn(i)
    \/ AnswerJoin

Spec == Init /\ [][Next]_vars

\* the steps that resume a started run: a model call settles, or a resolved
\* Promise.all resumes the function awaiting it
Settle ==
    \/ ClassifyReturn
    \/ ExtractReturn
    \/ VerifyReturn
    \/ \E i \in Slots : CandidateReturn(i)
    \/ GenerationJoin
    \/ \E i \in Slots : AnswerReturn(i)
    \/ AnswerJoin

\* ------------------------------------------------------------------------
\* CodeAgent on its own: generateCodeSolutions called on an agent that was
\* constructed with or without a progress callback; the callback may throw
\* ------------------------------------------------------------------------

InitAgent ==
    /\ InitWorkflow
    /\ onProgress \in {"undefined", "callback"}
    /\ InitMain
    /\ InitNoCall
    /\ InitDaemon

\* the statements generateCodeSolutions is called with
Statements == {[id |-> 1, examples |-> n] : n \in 0 .. MaxExamples}

\* generateCodeSolutions up to the await of Promise.all; when the call of
\* onProgress at line 158 throws, the function rejects before any request
AgentStart ==
    /\ pc = "idle"
    /\ \E text \in Statements, t0 \in BOOLEAN :
         /\ onProgress = "callback" \/ ~t0
         /\ IF t0
            THEN /\ genArg' = text
                 /\ calls' = [calls EXCEPT !.generate = @ + 1]
                 /\ tasks' = [i \in Slots |-> InitialTask(text)]
                 /\ snapshots' = Append(snapshots, tasks')
                 /\ pc' = "rejected"
                 /\ UNCHANGED <<settled, solutions, genOutcome, codeCorrect, order>>
            ELSE \E s \in StartChoices(onProgress = "callback") : FanOutStart(text, s)
    /\ UNCHANGED <<attempt, extractedText, onProgress, results, answerOutcome, result, emitted,
                   questionType, classifyResp, loopLog, extractOk, verdicts, thrown>>
    /\ UNCHANGED <<mainVars, agentVars, daemonVars>>

\* Promise.all rejects because a callback rejected: generateCodeSolutions
\* rejects while the other callbacks go on
AgentReject ==
    /\ pc = "generating"
    /\ questionType = "none"
    /\ \E i \in Slots : settled[i] = Rejected
    /\ pc' = "rejected"
    /\ UNCHANGED <<attempt, extractedText, onProgress, fanout, results, answerOutcome, result, emitted,
                   questionType, classifyResp, calls, loopLog, extractOk, verdicts, thrown>>
    /\ UNCHANGED <<mainVars, agentVars, daemonVars>>

\* Promise.all resolves: generateCodeSolutions returns the array
AgentJoin ==
    /\ pc = "generating"
    /\ questionType = "none"
    /\ AllReturned
    /\ solutions' = PromiseAll(settled, order)
    /\ pc' = "done"
    /\ UNCHANGED <<attempt, extractedText, onProgress, tasks, settled, snapshots, results, answerOutcome,
                   result, emitted, questionType, classifyResp, calls, loopLog, extractOk,
                   verdicts, genArg, genOutcome, codeCorrect, order, thrown>>
    /\ UNCHANGED <<mainVars, agentVars, daemonVars>>

NextAgent ==
    \/ AgentStart
    \/ \E i \in Slots : CandidateReturn(i)
    \/ AgentReject
    \/ AgentJoin

SpecAgent == InitAgent /\ [][NextAgent]_vars

\* ------------------------------------------------------------------------
\* Main process: the screenshot queue and the processing handlers
\* ------------------------------------------------------------------------

\* `const MAX_SCREENSHOTS = 4`
MAX_SCREENSHOTS == 4

\* runs started in one behaviour
MaxRuns == 2

\* invocations of handleTakeScreenshot suspended at the same time
MaxTakes == 2

\* invocations of handleResetQueue suspended at the same time
MaxResets == 1

RunIds == 1 .. MaxRuns

\* the payload handleResetQueue sends is no run's result: run 0
CancelPayload == 0

Started(r) == [type |-> "processing-started", run |-> r, pro |-> FALSE]
Complete(r) == [type |-> "processing-complete", run |-> r, pro |-> FALSE]

\* the same events when the pro branch of triggerProcess sends them: its
\* 'processing-complete' carries `{ pro: true, results }`
ProEvent(e) == [e EXCEPT !.pro = TRUE]

\* handleTakeScreenshot up to its first await
TakeBegin ==
    /\ takesInFlight < MaxTakes
    /\ ~(queueLen >= MAX_SCREENSHOTS)
    /\ takesInFlight' = takesInFlight + 1
    /\ UNCHANGED <<isProcessing, queueLen, resetsInFlight, proMode, fastRuns, proRuns,
                   nextRun, events, superseded, dropped>>
    /\ UNCHANGED commandVars
    /\ UNCHANGED <<wfVars, agentVars, daemonVars>>

\* the capture and the write settle: the push, or the catch
TakeEnd ==
    /\ takesInFlight > 0
    /\ takesInFlight' = takesInFlight - 1
    /\ \E captured \in BOOLEAN :
         queueLen' = IF captured THEN queueLen + 1 ELSE queueLen
    /\ UNCHANGED <<isProcessing, resetsInFlight, proMode, fastRuns, proRuns, nextRun,
                   events, superseded, dropped>>
    /\ UNCHANGED commandVars
    /\ UNCHANGED <<wfVars, agentVars, daemonVars>>

\* `if (isProcessing || screenshotQueue.length === 0) return`
ProcessGuard == ~(isProcessing \/ queueLen = 0)

\* handleProcessScreenshots up to `await openaiService.processScreenshots`;
\* triggerProcess calls it when proMode is off, the shortcut handler always
FastProcess ==
    /\ nextRun < MaxRuns
    /\ ProcessGuard
    /\ isProcessing' = TRUE
    /\ nextRun' = nextRun + 1
    /\ fastRuns' = fastRuns \cup {nextRun'}
    /\ events' = Append(events, Started(nextRun'))
    /\ UNCHANGED <<queueLen, takesInFlight, resetsInFlight, proMode, proRuns,
                   superseded, dropped>>
    /\ UNCHANGED commandVars
    /\ UNCHANGED <<wfVars, agentVars, daemonVars>>

\* mutation: the result is sent whether or not the run was cancelled
Delivers_Always(processing) == TRUE

\* `if (!isProcessing) return`, in the try and in the catch alike
Delivers(processing) == processing

\* the model call of run r settles (resolved or rejected): the result or the
\* error payload is sent unless isProcessing is false; finally clears the flag
FastComplete(r) ==
    /\ r \in fastRuns
    /\ fastRuns' = fastRuns \ {r}
    /\ IF Delivers(isProcessing)
       THEN events' = Append(events, Complete(r)) /\ dropped' = dropped
       ELSE events' = events /\ dropped' = dropped \cup {r}
    /\ isProcessing' = FALSE
    /\ UNCHANGED <<queueLen, takesInFlight, resetsInFlight, proMode, proRuns, nextRun,
                   superseded>>
    /\ UNCHANGED commandVars
    /\ UNCHANGED <<wfVars, agentVars, daemonVars>>

\* triggerProcess with proMode on, up to the await of Promise.all
ProProcess ==
    /\ nextRun < MaxRuns
    /\ proMode
    /\ nextRun' = nextRun + 1
    /\ proRuns' = proRuns \cup {nextRun'}
    /\ events' = Append(events, ProEvent(Started(nextRun')))
    /\ UNCHANGED <<isProcessing, queueLen, takesInFlight, resetsInFlight, proMode,
                   fastRuns, superseded, dropped>>
    /\ UNCHANGED commandVars
    /\ UNCHANGED <<wfVars, agentVars, daemonVars>>

\* Promise.all of pro run r resolves: the results are sent
ProComplete(r) ==
    /\ r \in proRuns
    /\ proRuns' = proRuns \ {r}
    /\ events' = Append(events, ProEvent(Complete(r)))
    /\ UNCHANGED <<isProcessing, queueLen, takesInFlight, resetsInFlight, proMode,
                   fastRuns, nextRun, superseded, dropped>>
    /\ UNCHANGED commandVars
    /\ UNCHANGED <<wfVars, agentVars, daemonVars>>

\* handleResetQueue up to the first `await fs.unlink`, or to its end when the
\* queue is empty
ResetBegin ==
    /\ resetsInFlight < MaxResets
    /\ superseded' = superseded \cup fastRuns \cup proRuns
    /\ isProcessing' = FALSE
    /\ events' = IF isProcessing THEN Append(events, Complete(CancelPayload)) ELSE events
    /\ resetsInFlight' = IF queueLen = 0 THEN resetsInFlight ELSE resetsInFlight + 1
    /\ UNCHANGED <<queueLen, takesInFlight, proMode, fastRuns, proRuns, nextRun, dropped>>
    /\ UNCHANGED commandVars
    /\ UNCHANGED <<wfVars, agentVars, daemonVars>>

\* the unlink loop ends: `screenshotQueue = []`
ResetEnd ==
    /\ resetsInFlight > 0
    /\ resetsInFlight' = resetsInFlight - 1
    /\ queueLen' = 0
    /\ UNCHANGED <<isProcessing, takesInFlight, proMode, fastRuns, proRuns, nextRun,
                   events, superseded, dropped>>
    /\ UNCHANGED commandVars
    /\ UNCHANGED <<wfVars, agentVars, daemonVars>>

\* what the renderer is sent on 'pro-mode-updated' and on 'model-updated'
ProModeUpdated(enabled) ==
    [channel |-> "pro-mode-updated", enabled |-> enabled, index |-> -1, name |-> ""]
ModelUpdated(index) ==
    [channel |-> "model-updated", enabled |-> FALSE, index |-> index,
     name |-> IF index + 1 \in DOMAIN MODEL_CANDIDATES
              THEN MODEL_CANDIDATES[index + 1] ELSE "undefined"]

\* a request the command server has handled: its path, the text of its `i`
\* parameter, the status it was answered with
Handled(path, param, status) == [path |-> path, param |-> param, status |-> status]

\* toggleProMode, called by /pro/toggle: `proMode = !proMode` and the
\* 'pro-mode-updated' message
ToggleProMode ==
    /\ Len(commandLog) < MaxCommands
    /\ proMode' = ~proMode
    /\ notices' = Append(notices, ProModeUpdated(proMode'))
    /\ commandLog' = Append(commandLog, Handled("/pro/toggle", <<>>, 200))
    /\ UNCHANGED <<isProcessing, queueLen, takesInFlight, resetsInFlight, fastRuns,
                   proRuns, nextRun, events, superseded, dropped, currentModelIndex,
                   flows>>
    /\ UNCHANGED <<wfVars, agentVars, daemonVars>>

NextMain ==
    \/ TakeBegin
    \/ TakeEnd
    \/ FastProcess
    \/ \E r \in RunIds : FastComplete(r)
    \/ ProProcess
    \/ \E r \in RunIds : ProComplete(r)
    \/ ResetBegin
    \/ ResetEnd
    \/ ToggleProMode

SpecMain == Init /\ [][NextMain]_vars

\* ------------------------------------------------------------------------
\* Command server: /model/set and /pro/toggle
\* ------------------------------------------------------------------------

\* the texts the `i` parameter of /model/set is given as, character by
\* character; the empty text is also what a missing parameter counts as
Params ==
    {<<>>, <<"x">>, <<"-", "1">>, <<"0">>, <<"2">>, <<"3">>, <<"4">>, <<"2", "x">>,
     <<"1", "0">>}

DigitValue == "0" :> 0 @@ "1" :> 1 @@ "2" :> 2 @@ "3" :> 3 @@ "4" :> 4

NaN == [nan |-> TRUE, value |-> 0]

RECURSIVE PrefixValue(_, _)
\* the value of the decimal digits the text starts with
PrefixValue(chars, acc) ==
    IF chars = <<>> \/ Head(chars) \notin DOMAIN DigitValue THEN acc
    ELSE PrefixValue(Tail(chars), 10 * acc + DigitValue[Head(chars)])

\* parseInt(text, 10): an optional sign, then the digits the text starts
\* with; NaN when there is none
ParseInt(chars) ==
    LET negative == chars # <<>> /\ Head(chars) = "-"
        body == IF negative THEN Tail(chars) ELSE chars IN
    IF body = <<>> \/ Head(body) \notin DOMAIN DigitValue THEN NaN
    ELSE [nan |-> FALSE, value |-> (IF negative THEN -1 ELSE 1) * PrefixValue(body, 0)]

\* mutation: the position just past the end of MODEL_CANDIDATES is accepted
ValidIndex_Inclusive(index) == ~(index < 0 \/ index > Len(MODEL_CANDIDATES))

\* `if (index < 0 || index >= MODEL_CANDIDATES.length) return`
ValidIndex(index) == ~(index < 0 \/ index >= Len(MODEL_CANDIDATES))

\* setModel(index): nothing for an index out of range; else the index is
\* stored, pro mode is switched off and announced if it was on, and the
\* model is announced
setModel(index) ==
    IF ~ValidIndex(index)
    THEN UNCHANGED <<currentModelIndex, proMode, notices>>
    ELSE /\ currentModelIndex' = index
         /\ proMode' = FALSE
         /\ notices' = notices \o (IF proMode THEN <<ProModeUpdated(FALSE)>> ELSE <<>>)
                               \o <<ModelUpdated(index)>>

\* the handler of /model/set: 400 when the parameter is missing or is not a
\* number, else setModel and 200
ModelSet(param) ==
    /\ Len(commandLog) < MaxCommands
    /\ LET idx == IF param # <<>> THEN ParseInt(param) ELSE NaN IN
       IF idx.nan
       THEN /\ commandLog' = Append(commandLog, Handled("/model/set", param, 400))
            /\ UNCHANGED <<currentModelIndex, proMode, notices>>
       ELSE /\ setModel(idx.value)
            /\ commandLog' = Append(commandLog, Handled("/model/set", param, 200))
    /\ UNCHANGED <<isProcessing, queueLen, takesInFlight, resetsInFlight, fastRuns,
                   proRuns, nextRun, events, superseded, dropped, flows>>
    /\ UNCHANGED <<wfVars, agentVars, daemonVars>>

NextCommands ==
    \/ \E param \in Params : ModelSet(param)
    \/ ToggleProMode

SpecCommands == Init /\ [][NextCommands]_vars

\* ------------------------------------------------------------------------
\* Command server: /flow
\* ------------------------------------------------------------------------

\* the functions the callback of /flow awaits, in the order of its code:
\* triggerReset, triggerScreenshot, triggerProcess, as the command server
\* was given them (each returns a promise that resolves or rejects)
FlowSteps == <<"reset", "screenshot", "process">>

\* the pause before step n: none before the first, else a timer
\* (`setTimeout(r, 100)`, `setTimeout(r, 200)`)
PauseBefore(n) == IF n = 1 THEN "queued" ELSE "pause" \o ToString(n)

Calling(step) == "call " \o step
Returned(step) == step \o " returned"
Failed(step) == step \o " failed"

\* mutation: the catch is inside each step, so the next step still runs
\* after a failure
AfterStep_IgnoresFailure(n, ok) ==
    IF n < Len(FlowSteps) THEN PauseBefore(n + 1) ELSE "finished"

\* where the callback is once the promise of step n has settled: at the
\* next pause, at its end, or in the catch
AfterStep(n, ok) ==
    IF ~ok THEN "caught"
    ELSE IF n < Len(FlowSteps) THEN PauseBefore(n + 1) ELSE "finished"

\* the handler of /flow: the callback is handed to setImmediate and the
\* request is answered with 200
FlowRequest(f) ==
    /\ flows[f].at = "unreceived"
    /\ \A g \in FlowIds : g < f => flows[g].at # "unreceived"
    /\ flows' = [flows EXCEPT ![f] = [at |-> PauseBefore(1), status |-> 200,
                                      trace |-> <<"200">>]]
    /\ UNCHANGED <<isProcessing, queueLen, takesInFlight, resetsInFlight, proMode,
                   fastRuns, proRuns, nextRun, events, superseded, dropped,
                   currentModelIndex, notices, commandLog>>
    /\ UNCHANGED <<wfVars, agentVars, daemonVars>>

\* the callback starts, or the timer of a pause fires: step n is called
FlowCall(f, n) ==
    /\ flows[f].at = PauseBefore(n)
    /\ flows' = [flows EXCEPT ![f].at = FlowSteps[n],
                              ![f].trace = Append(@, Calling(FlowSteps[n]))]
    /\ UNCHANGED <<isProcessing, queueLen, takesInFlight, resetsInFlight, proMode,
                   fastRuns, proRuns, nextRun, events, superseded, dropped,
                   currentModelIndex, notices, commandLog>>
    /\ UNCHANGED <<wfVars, agentVars, daemonVars>>

\* the promise of step n settles: the callback goes on to the next pause,
\* ends, or its catch swallows the failure
FlowSettle(f, n, ok) ==
    /\ flows[f].at = FlowSteps[n]
    /\ flows' = [flows EXCEPT
                     ![f].at = AfterStep(n, ok),
                     ![f].trace = Append(@, IF ok THEN Returned(FlowSteps[n])
                                            ELSE Failed(FlowSteps[n]))]
    /\ UNCHANGED <<isProcessing, queueLen, takesInFlight, resetsInFlight, proMode,
                   fastRuns, proRuns, nextRun, events, superseded, dropped,
                   currentModelIndex, notices, commandLog>>
    /\ UNCHANGED <<wfVars, agentVars, daemonVars>>

NextFlow ==
    \/ \E f \in FlowIds : FlowRequest(f)
    \/ \E f \in FlowIds, n \in DOMAIN FlowSteps : FlowCall(f, n)
    \/ \E f \in FlowIds, n \in DOMAIN FlowSteps, ok \in BOOLEAN : FlowSettle(f, n, ok)

SpecFlow == Init /\ [][NextFlow]_vars

\* ------------------------------------------------------------------------
\* The agents on their own: one call of verifyExtractedText and one call of
\* extractProblemText, for every answer of the model
\* ------------------------------------------------------------------------

InitCalls ==
    /\ InitWorkflow
    /\ onProgress = WorkflowOnProgress
    /\ InitMain
    /\ agentInput \in [verify : VerifyResponses, extract : ExtractInputs,
                        attempt : 1 .. MaxAttempts]
    /\ verifyReply = NoVerifyReply
    /\ extractReply = NoExtractReply
    /\ InitDaemon

\* what the loop does with the verdict of attempt a: lines 93-102
AfterVerdict(isValid, a) ==
    IF isValid THEN "break"
    ELSE IF VerificationExhausted(isValid, a) /\ Rethrows(a) THEN "throw"
    ELSE "retry"

\* verifyExtractedText is called and returns
VerifyCall ==
    /\ ~verifyReply.done
    /\ LET isValid == verifyExtractedText(agentInput.verify) IN
       verifyReply' = [done |-> TRUE, value |-> isValid,
                       next |-> AfterVerdict(isValid, agentInput.attempt)]
    /\ UNCHANGED <<agentInput, extractReply>>
    /\ UNCHANGED <<wfVars, mainVars, daemonVars>>

\* extractProblemText is called and returns or throws
ExtractCall ==
    /\ ~extractReply.done
    /\ extractReply' = [done |-> TRUE, value |-> extractProblemText(agentInput.extract)]
    /\ UNCHANGED <<agentInput, verifyReply>>
    /\ UNCHANGED <<wfVars, mainVars, daemonVars>>

NextCalls ==
    \/ VerifyCall
    \/ ExtractCall

SpecCalls == InitCalls /\ [][NextCalls]_vars

\* ------------------------------------------------------------------------
\* PythonDaemon: load, run, the child process and its exit
\* ------------------------------------------------------------------------

\* the number of the next call
NextCall == Cardinality({k \in CallIds : requests[k].phase # "unissued"}) + 1

\* the call whose request carries id
CallOf(id) == CHOOSE k \in CallIds : requests[k].id = id

\* send(payload) for call k when this.process is target and the processes
\* are procsNow: the failure reply without a process, else a new id, an
\* entry in pending and a line on the stdin of the process
SendTo(k, req, target, procsNow) ==
    IF target = 0
    THEN /\ requests' = [requests EXCEPT ![k] = [req EXCEPT !.phase = "resolved"]]
         /\ replies' = [replies EXCEPT ![k] =
                            [id |-> -1, ok |-> FALSE, error |-> "python daemon not running",
                             stdout |-> ""]]
         /\ procs' = procsNow
         /\ UNCHANGED <<pending, nextId>>
    ELSE /\ requests' = [requests EXCEPT ![k] =
                             [req EXCEPT !.phase = "pending", !.proc = target,
                                         !.id = nextId]]
         /\ nextId' = nextId + 1
         /\ pending' = pending \cup {nextId}
         /\ procs' = [procsNow EXCEPT ![target].stdin =
                          Append(@, [id |-> nextId, cmd |-> req.cmd, code |-> req.code])]
         /\ UNCHANGED replies

\* `this.process.stdin.writable`: a child that has died but whose 'exit'
\* event has not been delivered may or may not still accept a write
Writable(state) == IF state = "dying" THEN BOOLEAN ELSE {TRUE}

\* load(code) or run(input) is called: with a process, start() returns and
\* the request is sent; without one, start() spawns a child and waits
Call(cmd, code) ==
    /\ NextCall <= MaxCalls
    /\ LET k == NextCall
           req == [NoCall EXCEPT !.cmd = cmd, !.code = code] IN
       IF dproc # 0
       THEN \E writable \in Writable(procs[dproc].state) :
                SendTo(k, req, IF writable THEN dproc ELSE 0, procs)
       ELSE /\ \E p \in ProcIds :
                 /\ procs[p].state = "unborn"
                 /\ \A q \in ProcIds : q < p => procs[q].state # "unborn"
                 /\ procs' = [procs EXCEPT ![p].state = "spawning"]
                 /\ requests' = [requests EXCEPT ![k] =
                                     [req EXCEPT !.phase = "starting", !.proc = p]]
            /\ UNCHANGED <<replies, pending, nextId>>
    /\ UNCHANGED <<dproc, ranWith>>
    /\ UNCHANGED <<wfVars, mainVars, agentVars>>

\* the 'spawn' event of the child call k waits for: attachProcess makes it
\* this.process, start() returns and the request of call k is sent
SpawnOk(k) ==
    /\ requests[k].phase = "starting"
    /\ LET p == requests[k].proc IN
       /\ procs[p].state = "spawning"
       /\ dproc' = p
       /\ SendTo(k, requests[k], p, [procs EXCEPT ![p].state = "alive"])
    /\ UNCHANGED ranWith
    /\ UNCHANGED <<wfVars, mainVars, agentVars>>

\* neither interpreter starts: start() throws and the call fails
SpawnFail(k) ==
    /\ requests[k].phase = "starting"
    /\ LET p == requests[k].proc IN
       /\ procs[p].state = "spawning"
       /\ procs' = [procs EXCEPT ![p].state = "gone"]
    /\ requests' = [requests EXCEPT ![k].phase = "resolved"]
    /\ replies' = [replies EXCEPT ![k] =
                       [id |-> -1, ok |-> FALSE, error |-> "failed to start", stdout |-> ""]]
    /\ UNCHANGED <<dproc, pending, nextId, ranWith>>
    /\ UNCHANGED <<wfVars, mainVars, agentVars>>

\* mutation: the promise is resolved and its entry stays in pending
Deliver_KeepsPending(id, reply) ==
    IF id \in pending
    THEN /\ pending' = pending
         /\ requests' = [requests EXCEPT ![CallOf(id)].phase = "resolved"]
         /\ replies' = [replies EXCEPT ![CallOf(id)] = reply]
    ELSE UNCHANGED <<pending, requests, replies>>

\* handleStdout on a response line: the pending entry of msg.id, if any, is
\* deleted and its promise resolved with the line
Deliver(id, reply) ==
    IF id \in pending
    THEN /\ pending' = pending \ {id}
         /\ requests' = [requests EXCEPT ![CallOf(id)].phase = "resolved"]
         /\ replies' = [replies EXCEPT ![CallOf(id)] = reply]
    ELSE UNCHANGED <<pending, requests, replies>>

\* `if not loaded_code`: None and the empty text count as nothing loaded
NothingLoaded(loaded) == loaded \in {"None", ""}

\* mutation: a load is acknowledged without replacing loaded_code once a
\* program is loaded
LoadedAfter_KeepFirst(loaded, code) == IF NothingLoaded(loaded) THEN code ELSE loaded

\* `loaded_code = msg.get("code", "")`
LoadedAfter(loaded, code) == code

\* the daemon script reads the next line of its stdin and handles it
DaemonStep(p) ==
    /\ procs[p].state = "alive"
    /\ procs[p].stdin # <<>>
    /\ LET msg == Head(procs[p].stdin)
           rest == [procs[p] EXCEPT !.stdin = Tail(@)]
           k == CallOf(msg.id) IN
       IF msg.cmd = "load"
       THEN /\ procs' = [procs EXCEPT
                             ![p] = [rest EXCEPT !.loaded = LoadedAfter(@, msg.code)]]
            /\ Deliver(msg.id, [id |-> msg.id, ok |-> TRUE, error |-> "", stdout |-> ""])
            /\ UNCHANGED ranWith
       ELSE IF NothingLoaded(procs[p].loaded)
       THEN /\ procs' = [procs EXCEPT ![p] = rest]
            /\ Deliver(msg.id, [id |-> msg.id, ok |-> FALSE, error |-> "no code loaded",
                                  stdout |-> ""])
            /\ ranWith' = [ranWith EXCEPT ![k] = "None"]
       ELSE /\ ranWith' = [ranWith EXCEPT ![k] = procs[p].loaded]
            /\ CASE procs[p].loaded = "exit" ->
                      /\ procs' = [procs EXCEPT ![p] = [rest EXCEPT !.state = "dying"]]
                      /\ UNCHANGED <<pending, requests, replies>>
                 [] procs[p].loaded = "loop" ->
                      /\ procs' = [procs EXCEPT ![p] = [rest EXCEPT !.state = "looping"]]
                      /\ UNCHANGED <<pending, requests, replies>>
                 [] OTHER ->
                      /\ procs' = [procs EXCEPT ![p] = rest]
                      /\ Deliver(msg.id, [id |-> msg.id, ok |-> TRUE, error |-> "",
                                            stdout |-> procs[p].loaded])
    /\ UNCHANGED <<dproc, nextId>>
    /\ UNCHANGED <<wfVars, mainVars, agentVars>>

\* a child process is killed from outside or crashes
ProcDies(p) ==
    /\ procs[p].state \in {"alive", "looping"}
    /\ procs' = [procs EXCEPT ![p].state = "dying"]
    /\ UNCHANGED <<dproc, requests, replies, pending, nextId, ranWith>>
    /\ UNCHANGED <<wfVars, mainVars, agentVars>>

\* stop(): the process is killed and this.process is cleared
Stop ==
    /\ dproc # 0
    /\ procs' = [procs EXCEPT ![dproc].state = "dying"]
    /\ dproc' = 0
    /\ UNCHANGED <<requests, replies, pending, nextId, ranWith>>
    /\ UNCHANGED <<wfVars, mainVars, agentVars>>

\* the 'exit' event of an attached child: this.process is cleared, every
\* pending promise is resolved with the exit error, pending is emptied
ExitEvent(p) ==
    /\ procs[p].state = "dying"
    /\ procs' = [procs EXCEPT ![p].state = "gone"]
    /\ dproc' = 0
    /\ requests' = [k \in CallIds |->
                       IF requests[k].id \in pending
                       THEN [requests[k] EXCEPT !.phase = "resolved"]
                       ELSE requests[k]]
    /\ replies' = [k \in CallIds |->
                      IF requests[k].id \in pending
                      THEN [id |-> -1, ok |-> FALSE, error |-> "python daemon exited",
                            stdout |-> ""]
                      ELSE replies[k]]
    /\ pending' = {}
    /\ UNCHANGED <<nextId, ranWith>>
    /\ UNCHANGED <<wfVars, mainVars, agentVars>>

NextDaemon ==
    \/ \E code \in Codes : Call("load", code)
    \/ Call("run", "")
    \/ \E k \in CallIds : SpawnOk(k)
    \/ \E k \in CallIds : SpawnFail(k)
    \/ \E p \in ProcIds : DaemonStep(p)
    \/ \E p \in ProcIds : ProcDies(p)
    \/ Stop
    \/ \E p \in ProcIds : ExitEvent(p)

SpecDaemon == Init /\ [][NextDaemon]_vars

\* the child process goes on when it can, a spawn is answered by its event,
\* an exit is reported; nothing obliges callers, crashes or stop()
FairDaemon ==
    /\ \A p \in ProcIds : WF_vars(DaemonStep(p)) /\ WF_vars(ExitEvent(p))
    /\ \A k \in CallIds : WF_vars(SpawnOk(k) \/ SpawnFail(k))

SpecDaemonFair == SpecDaemon /\ FairDaemon

\* ------------------------------------------------------------------------
\* Properties
\* ------------------------------------------------------------------------

VerifiedIds == {v.id : v \in {w \in verdicts : w.valid}}

Last(seq) == seq[Len(seq)]

\* C1: generateCodeSolutions is invoked only with a statement the Verifier
\* answered true for in this run; a false answer on attempt 3 ends the run
\* with success=false and the generator is never invoked.
C1_GeneratorOnlyAfterVerification ==
    /\ calls.generate > 0 => genArg.id \in VerifiedIds
    /\ (\E v \in verdicts : v.attempt = 3 /\ ~v.valid) =>
          /\ pc = "done"
          /\ result.success = FALSE
          /\ calls.generate = 0

\* the generator runs on the statement of attempt 2, after attempt 1 was refused
C1_Witness ==
    /\ pc = "generating"
    /\ genArg.id = 2
    /\ \E v \in verdicts : v.attempt = 1 /\ ~v.valid

\* C2: at most 3 extraction calls and at most 3 verification calls per run,
\* and never more verification calls than successful extractions.
C2_LoopBounds ==
    /\ calls.extract <= 3
    /\ calls.verify <= 3
    /\ calls.verify <= extractOk

\* three extractions and three verifications have been issued
C2_Witness == calls.extract = 3 /\ calls.verify = 3

\* C3: the progress values handed to the status callback within one run are
\* non-decreasing.
C3_ProgressNonDecreasing ==
    \A k \in 1 .. (Len(emitted) - 1) : emitted[k].progress <= emitted[k + 1].progress

\* completed === true / error set, on a state as updateStatus builds it
IsCompleted(state) == "completed" \in DOMAIN state /\ state.completed = TRUE
HasError(state) == "error" \in DOMAIN state /\ state.error # NoError

\* C4: when the run has ended, the last emitted state has completed=true or
\* error set, never both and never neither.
C4_TerminalEmission ==
    pc = "done" =>
        /\ Len(emitted) > 0
        /\ IsCompleted(Last(emitted)) # HasError(Last(emitted))

\* C5: the run always ends by returning a result; the result has
\* success=false exactly when an exception reached executeProWorkflow, and
\* then its error message is set.
C5_ExceptionsBecomeFailureResult ==
    pc = "done" =>
        /\ "success" \in DOMAIN result
        /\ result.success = FALSE <=> thrown
        /\ thrown => "error" \in DOMAIN result /\ result.error # NoError

\* a run that ended on an exception (extraction or verification exhausted)
C5_Witness == pc = "done" /\ thrown /\ result.success = FALSE

\* C6: a run classified 'general' never invokes Extractor, Verifier or
\* SolutionGenerator.
C6_GeneralSkipsCodingAgents ==
    questionType = "general" =>
        calls.extract = 0 /\ calls.verify = 0 /\ calls.generate = 0

\* a general run that has finished
C6_Witness == questionType = "general" /\ pc = "done" /\ calls.answer = N

Min(S) == CHOOSE i \in S : \A j \in S : i <= j

OkSlots == {i \in Slots : genOutcome[i] \in OkResponses}

\* C7: the selected candidate is the succeeded one of smallest index, whatever
\* the order in which the requests completed; with no success, the selection
\* is the synthesized failure tagged index 0.
C7_LowestIndexSuccess ==
    (pc = "done" /\ calls.generate > 0) =>
        IF OkSlots # {}
        THEN /\ result.selectedResult.index = Min(OkSlots)
             /\ result.selectedResult.reason = "first success"
             /\ result.data.payload.code = Parsed(Min(OkSlots)).code
        ELSE /\ result.selectedResult.index = 0
             /\ result.selectedResult.reason = "all failed"

\* slot 0 succeeded but completed last, after slot 2 and slot 1 had succeeded
C7_Witness ==
    /\ pc = "done"
    /\ order = <<2, 1, 0>>
    /\ OkSlots = Slots
    /\ result.selectedResult.index = 0

\* C8: when all N candidates fail the run returns success=true, with a payload
\* whose approach and code carry an error string and whose complexities are
\* "N/A", and selectedResult.index = 0.
C8_TotalFailureIsNotFatal ==
    (pc = "done" /\ calls.generate > 0 /\ OkSlots = {}) =>
        /\ result.success = TRUE
        /\ result.data.payload.approach = "generation failed"
        /\ result.data.payload.code = "Error: " \o settled[0].error
        /\ result.data.payload.timeComplexity = "N/A"
        /\ result.data.payload.spaceComplexity = "N/A"
        /\ result.selectedResult.index = 0

\* a coding run in which every candidate failed has returned
C8_Witness ==
    /\ pc = "done"
    /\ calls.generate > 0
    /\ \A i \in Slots : genOutcome[i] \in {"reject", "rejectNoMessage", "empty", "badjson", "missing"}
    /\ result.success = TRUE

\* C9: once every generation request has settled, the returned array has
\* exactly N entries, entry i has index i, and every task is success or failed.
C9_FanOutComplete ==
    /\ (\A i \in Slots : genOutcome[i] # "none") =>
           \A i \in Slots : tasks[i].status \in {"success", "failed"}
    /\ (pc = "done" /\ calls.generate > 0) =>
           /\ DOMAIN solutions = Slots
           /\ Cardinality(DOMAIN solutions) = N
           /\ \A i \in Slots : solutions[i] # NoSolution /\ solutions[i].index = i

\* the array was returned from a fan-out in which slot 0 lacked a field, slot 1
\* succeeded and slot 2 was rejected
C9_Witness ==
    /\ pc = "done"
    /\ calls.generate > 0
    /\ genOutcome[0] = "missing"
    /\ genOutcome[1] = "ok"
    /\ genOutcome[2] = "reject"

\* the message a failed generation request is reported with
CapturedMessage(outcome) ==
    CASE outcome = "reject"          -> "transport error"
      [] outcome = "rejectNoMessage" -> "generation failed"
      [] outcome = "empty"           -> "no solution generated"
      [] OTHER                       -> "format error"

\* C10: a candidate's status depends on its own request only: a failed request
\* marks its own slot failed with the captured message, a successful one marks
\* its own slot success, a pending one stays running; the fan-out never throws.
C10_FailureIsolation ==
    calls.generate > 0 =>
        /\ \A i \in Slots :
              CASE genOutcome[i] = "none" ->
                      tasks[i].status = "running" /\ settled[i] = NoSolution
                [] genOutcome[i] \in OkResponses ->
                      tasks[i].status = "success" /\ settled[i].ok
                [] OTHER ->
                      /\ tasks[i].status = "failed"
                      /\ tasks[i].error = CapturedMessage(genOutcome[i])
                      /\ ~settled[i].ok
                      /\ settled[i].error = CapturedMessage(genOutcome[i])
        /\ ~thrown

\* slot 0 has failed while slot 1 has succeeded after it and slot 2 still runs
C10_Witness ==
    /\ pc = "generating"
    /\ order = <<0, 1>>
    /\ genOutcome[0] = "badjson"
    /\ tasks[1].status = "success"
    /\ tasks[2].status = "running"

\* C11: when the Verifier first answers true on attempt k (k = 1, 2 or 3),
\* generation is invoked with exactly the statement extraction returned on
\* attempt k, also when earlier attempts were rejected
AcceptedAttempts == {v.attempt : v \in {w \in verdicts : w.valid}}

C11_GeneratesFromAcceptedAttempt ==
    /\ Cardinality(AcceptedAttempts) <= 1
    /\ calls.generate > 0 =>
          \E k \in AcceptedAttempts :
              /\ \A v \in verdicts : v.attempt < k => ~v.valid
              /\ \E e \in extracts : e.attempt = k /\ e.ok /\ genArg = e.text

\* rejected on attempts 1 and 2 with another example list, accepted on 3
C11_Witness ==
    /\ calls.generate > 0
    /\ genArg.id = 3
    /\ \A k \in {1, 2} :
          /\ \E v \in verdicts : v.attempt = k /\ ~v.valid
          /\ \E e \in extracts : e.attempt = k /\ e.ok /\ e.text.examples # genArg.examples

\* C12: an Extractor failure on attempt 1 or 2 is absorbed and the loop goes
\* on with the next extraction; an Extractor failure on attempt 3 ends the
\* run with success = false
C12_ExtractorFailureAbsorbedUntilLast ==
    \A e \in extracts :
        ~e.ok =>
            IF e.attempt < MaxAttempts
            THEN calls.extract > e.attempt
            ELSE /\ pc = "done"
                 /\ thrown
                 /\ result.success = FALSE
                 /\ calls.generate = 0

\* the Extractor failed on attempt 1 and again on attempt 3
C12_Witness ==
    /\ \E e \in extracts : e.attempt = 1 /\ ~e.ok
    /\ \E e \in extracts : e.attempt = 3 /\ ~e.ok
    /\ result.success = FALSE

\* C13: after a reset, a result that arrives late from a superseded run is
\* ignored: no 'processing-complete' carries the result of a run that was in
\* flight when a reset was triggered, and the result of a run that no reset
\* superseded is not dropped
C13_SupersededRunsIgnored ==
    /\ \A k \in DOMAIN events :
          events[k].type = "processing-complete" => events[k].run \notin superseded
    /\ dropped \subseteq superseded

\* C14: during a pro-mode coding run the observer receives the full array of
\* N slots after every candidate transition, so once generation has started
\* the last array it received shows the current status of every slot
C14_ObserverSeesEveryTransition ==
    calls.generate > 0 =>
        /\ snapshots # <<>>
        /\ DOMAIN Last(snapshots) = Slots
        /\ \A i \in Slots : Last(snapshots)[i].status = tasks[i].status

\* C15: for a succeeded candidate and a statement with examples, testsPassed
\* is the number of examples the candidate's code answers as expected: all of
\* them for correct code, none for wrong code
C15_TestsPassedCountsExamples ==
    \A i \in Slots :
        (tasks[i].status = "success" /\ genArg.examples > 0) =>
            tasks[i].testsPassed =
                (IF codeCorrect[i] = "correct" THEN genArg.examples ELSE 0)

Terminal == {"success", "failed"}

\* the statuses of slot i the callback has been shown, then the current one
StatusLog(i) == [k \in DOMAIN snapshots |-> snapshots[k][i].status] \o <<tasks[i].status>>

\* C16: a candidate's status only moves pending, running, then success or
\* failed, and once it is success or failed it never changes again, whatever
\* the progress callback does
C16_OneTerminalStatus ==
    \A i \in Slots :
        \A j, k \in DOMAIN StatusLog(i) :
            j < k =>
                /\ StatusLog(i)[j] \in Terminal => StatusLog(i)[k] = StatusLog(i)[j]
                /\ StatusLog(i)[j] = "running" => StatusLog(i)[k] # "pending"

\* C17: testsTotal of every candidate is the number of examples of the
\* statement the array was created for and never changes, and testsPassed
\* never exceeds testsTotal
C17_TestsTotalFixed ==
    calls.generate > 0 =>
        \A i \in Slots :
            /\ tasks[i].testsTotal = genArg.examples
            /\ tasks[i].testsPassed <= tasks[i].testsTotal

\* C18: the step in which candidate i's callback finishes writes only slot i
\* of the candidate array and of the collected values
C18_WritesOwnSlotOnly ==
    [][\A i \in Slots :
          order' = Append(order, i) =>
              \A j \in Slots \ {i} : tasks'[j] = tasks[j] /\ settled'[j] = settled[j]]_vars

\* slot 1 finished first and failed, then slot 0 succeeded, slot 2 still runs
C18_Witness ==
    /\ order = <<1, 0>>
    /\ tasks[1].status = "failed"
    /\ tasks[0].status = "success"
    /\ tasks[2].status = "running"

\* C19: the calls of the loop are strictly sequential: at most one is in
\* flight; a verification is in flight only after the extraction of the same
\* attempt succeeded; the extraction of attempt k+1 is in flight only after
\* the verification of attempt k returned or the extraction of attempt k failed
C19_LoopStrictlySequential ==
    /\ Cardinality(inflight) <= 1
    /\ \A c \in inflight :
          IF c.kind = "verify"
          THEN \E e \in extracts : e.attempt = c.attempt /\ e.ok
          ELSE c.attempt > 1 =>
                 \/ \E v \in verdicts : v.attempt = c.attempt - 1
                 \/ \E e \in extracts : e.attempt = c.attempt - 1 /\ ~e.ok

\* the verification of attempt 2 is in flight after attempt 1 was rejected
C19_Witness ==
    /\ inflight = {[kind |-> "verify", attempt |-> 2]}
    /\ \E v \in verdicts : v.attempt = 1 /\ ~v.valid

\* the answers that are neither 'coding' nor 'general' once trimmed and
\* lower-cased, and the transport failure
Unrecognised == {resp \in ClassifyResponses :
                    resp = "REJECT" \/ TrimLower(resp) \notin {"coding", "general"}}

\* C20 as stated: every response other than exactly 'coding' or 'general',
\* and every transport failure, makes classifyQuestion return 'coding'
C20_AnythingElseIsCoding ==
    (classifyResp \in ClassifyResponses \ {"coding", "general"}) => questionType = "coding"

\* C20, amended: every response that is neither 'coding' nor 'general' after
\* trimming and lower-casing, and every transport failure, makes
\* classifyQuestion return 'coding' and the run goes on on the coding branch
C20_UnrecognisedIsCoding ==
    classifyResp \in Unrecognised =>
        /\ questionType = "coding"
        /\ calls.extract > 0
        /\ calls.answer = 0

\* the transport failed and the run is on the coding branch
C20_Witness == classifyResp = "REJECT" /\ pc = "extracting" /\ ~thrown

\* the verification answer is the token 'true' once trimmed and lower-cased
AnswersTrue(resp) == resp # "REJECT" /\ TrimLower(resp) = "true"

\* C21 as stated: every internal error and every answer other than exactly
\* 'true' makes verifyExtractedText return false
C21_AnythingElseIsFalse ==
    (verifyReply.done /\ agentInput.verify # "true") => verifyReply.value = FALSE

\* C21, amended: verifyExtractedText never fails; every internal error and
\* every answer that is not 'true' once trimmed and lower-cased yields
\* false, after which the loop extracts again, or gives up on attempt 3
C21_NotTrueIsFalse ==
    (verifyReply.done /\ ~AnswersTrue(agentInput.verify)) =>
        /\ verifyReply.value = FALSE
        /\ verifyReply.next =
               (IF agentInput.attempt = MaxAttempts THEN "throw" ELSE "retry")

\* the verification request failed on attempt 2 and the loop extracts again
C21_Witness ==
    /\ verifyReply.done
    /\ agentInput.verify = "REJECT"
    /\ agentInput.attempt = 2
    /\ verifyReply.next = "retry"

\* C22: extractProblemText throws exactly when the model call fails, the
\* answer is empty or is not parseable JSON, or the parsed object lacks a
\* non-empty title or a non-empty description; otherwise it returns a
\* statement whose title and description are non-empty
C22_ExtractionFailsExactlyWhen ==
    extractReply.done =>
        LET resp == agentInput.extract
            value == extractReply.value IN
        /\ ~value.ok <=> \/ resp.kind \in {"reject", "empty", "badjson"}
                         \/ ~resp.title
                         \/ ~resp.description
        /\ ~value.ok => value.error # NoError
        /\ value.ok => value.title /\ value.description

\* parseable JSON with a title and an empty description was refused
C22_Witness ==
    /\ extractReply.done
    /\ agentInput.extract.kind = "json"
    /\ agentInput.extract.title
    /\ ~agentInput.extract.description
    /\ ~extractReply.value.ok

\* C23: when the parsed object has title and description, extractProblemText
\* does not fail; an examples field that is absent or is not a sequence gives
\* the empty sequence, a sequence is returned with the same entries in order
C23_ExamplesNormalized ==
    LET resp == agentInput.extract
        value == extractReply.value IN
    (extractReply.done /\ resp.kind = "json" /\ resp.title /\ resp.description) =>
        /\ value.ok
        /\ value.items = (IF resp.examples.present /\ resp.examples.isArray
                          THEN [k \in 1 .. resp.examples.len |-> k]
                          ELSE <<>>)

\* an examples field that is not a sequence was replaced by the empty one
C23_Witness ==
    /\ extractReply.done
    /\ agentInput.extract.examples.present
    /\ ~agentInput.extract.examples.isArray
    /\ extractReply.value.ok
    /\ extractReply.value.items = <<>>

\* C24: a general run issues N answer requests and returns success = true
\* with a payload flagged pro = true whose results array has exactly N
\* entries, entry i carrying index i and the answer (ok = true) or the error
\* (ok = false) of request i, whatever subset of the requests failed; there
\* is no selectedResult
C24_GeneralReturnsAllResults ==
    (questionType = "general" /\ pc = "done") =>
        /\ calls.answer = N
        /\ result.success = TRUE
        /\ result.data.pro = TRUE
        /\ DOMAIN result.data.results = Slots
        /\ "selectedResult" \notin DOMAIN result
        /\ \A i \in Slots :
              LET entry == result.data.results[i]
                  res == processScreenshots(answerOutcome[i]) IN
              /\ entry.index = i
              /\ entry.ok = (answerOutcome[i] # "reject")
              /\ IF entry.ok THEN entry.data = res.data
                 ELSE entry.error = MessageOr(res.message, "error")

\* requests 0 and 2 failed, request 1 answered
C24_Witness ==
    /\ questionType = "general"
    /\ pc = "done"
    /\ answerOutcome = (0 :> "reject" @@ 1 :> "answer" @@ 2 :> "reject")
    /\ result.success = TRUE

\* the code of the most recent load called before call k ("None" without one)
LastLoadBefore(k) ==
    LET loads == {j \in 1 .. (k - 1) : requests[j].cmd = "load"} IN
    IF loads = {} THEN "None"
    ELSE requests[CHOOSE j \in loads : \A i \in loads : i <= j].code

\* C26: every run the daemon handles executes the code of the most recent
\* preceding load, for any sequence of load and run calls; a run with no
\* load before it returns an error and executes nothing
C26_RunUsesLatestLoad ==
    \A k \in CallIds :
        (requests[k].cmd = "run" /\ ranWith[k] # "unhandled") =>
            /\ ranWith[k] = LastLoadBefore(k)
            /\ (LastLoadBefore(k) = "None" /\ requests[k].phase = "resolved")
                   => ~replies[k].ok

\* C27: every call of load or run eventually resolves, to a result or to a
\* failure
C27_EveryCallResolves ==
    \A k \in CallIds :
        (requests[k].phase \in {"starting", "pending"}) ~> (requests[k].phase = "resolved")

\* the number of updates emitted so far that announce one of the steps
Announced(steps) ==
    Cardinality({k \in DOMAIN emitted : emitted[k].currentStep \in steps})

\* C25: on a coding run every stage is announced by an update emitted before
\* it begins: the update 10 before the classification call, an update before
\* each extraction call and before each verification call, the update 70
\* before the fan-out, the update 90 before selection, and the update 100 is
\* the last emission before the result is returned
C25_UpdatePrecedesEveryStage ==
    /\ calls.classify > 0 => (Len(emitted) > 0 /\ emitted[1].progress = 10)
    /\ Announced({"extracting", "re-extracting"}) >= calls.extract
    /\ Announced({"verifying"}) >= calls.verify
    /\ calls.generate > 0 => Announced({"generating"}) = 1
    /\ (pc = "done" /\ questionType = "coding") =>
          /\ Len(emitted) >= 2
          /\ Last(emitted).progress = 100
          /\ emitted[Len(emitted) - 1].progress = 90

\* the calls a run has issued and the calls that have settled
WorkDone ==
    calls.classify + calls.extract + calls.verify + calls.generate + calls.answer
        + Cardinality(extracts) + Cardinality(verdicts) + Len(order)
        + Cardinality({i \in Slots : results[i] # NoSolution})

\* the most calls one run can issue and see settled
MaxWork == 2 * (1 + 2 * MaxAttempts + N) + 1

\* C28: when every model call eventually settles, every run of
\* executeProWorkflow eventually returns a result: a started run that has
\* not returned always has a call that can settle or a join that can resume
\* it, the work of a run is bounded, and a run that ended has a result
C28_EveryRunReturns ==
    /\ pc \notin {"idle", "done"} => ENABLED Settle
    /\ WorkDone <= MaxWork
    /\ calls.extract <= MaxAttempts /\ calls.verify <= MaxAttempts
    /\ pc = "done" => result # NoResult

\* a run returned after a failed extraction, a rejected verification and a
\* failed candidate
C28_Witness ==
    /\ pc = "done"
    /\ result # NoResult
    /\ \E e \in extracts : ~e.ok
    /\ \E v \in verdicts : ~v.valid
    /\ \E i \in Slots : genOutcome[i] = "reject"

\* C29: every run issues exactly one classification request, never a second
\* one, and it is issued and settled before any extraction, verification,
\* generation or answer request of the run
C29_OneClassificationFirst ==
    /\ calls.classify <= 1
    /\ pc # "idle" => calls.classify = 1
    /\ (calls.extract + calls.verify + calls.generate + calls.answer > 0) =>
          (calls.classify = 1 /\ classifyResp # "none" /\ pc # "classifying")

\* the classification request failed, was not repeated, and the run went on
\* to three extraction calls
C29_Witness ==
    /\ classifyResp = "REJECT"
    /\ calls.classify = 1
    /\ calls.extract = 3
    /\ pc = "done"

\* C30: the screenshot queue never holds more than MAX_SCREENSHOTS
\* screenshots, for every interleaving of handleTakeScreenshot invocations
\* with handleResetQueue
C30_QueueBounded == queueLen <= MAX_SCREENSHOTS

\* C31: in fast mode at most one model request started by
\* handleProcessScreenshots is in flight at any time, for every interleaving
\* of process and reset triggers
C31_OneRequestInFlight == Cardinality(fastRuns) <= 1

\* the events of one type that the fast-mode handlers have sent
FastSent(type) ==
    Cardinality({k \in DOMAIN events : events[k].type = type /\ ~events[k].pro})

\* C32: in fast mode the number of 'processing-started' events sent minus the
\* number of 'processing-complete' events sent is 1 while isProcessing is
\* true and 0 while it is false, and while it is 1 a model call is in flight
\* whose completion sends the matching 'processing-complete'
C32_StartedMatchesComplete ==
    /\ FastSent("processing-started") - FastSent("processing-complete") =
          (IF isProcessing THEN 1 ELSE 0)
    /\ isProcessing => \E r \in RunIds : ENABLED FastComplete(r)

\* a run was cancelled by a reset, a second run started while the first was
\* in flight, and both model calls have settled
C32_Witness ==
    /\ \E k \in DOMAIN events : events[k] = Complete(CancelPayload)
    /\ FastSent("processing-started") = 2
    /\ FastSent("processing-complete") = 2
    /\ dropped # {}
    /\ fastRuns = {}
    /\ ~isProcessing

\* the calls whose request send() gave an id and wrote to a child process
Sent == {k \in CallIds : requests[k].id # 0}

\* pending holds exactly the ids of the requests that are not yet resolved,
\* no two requests share an id, and a resolved request was resolved by the
\* response line with its own id or by the error of an exit
PendingIsUnresolved ==
    /\ \A j, k \in Sent : j # k => requests[j].id # requests[k].id
    /\ pending = {requests[k].id : k \in {j \in Sent : requests[j].phase = "pending"}}
    /\ \A k \in Sent :
          requests[k].phase = "resolved" =>
              \/ replies[k].id = requests[k].id
              \/ replies[k].error = "python daemon exited"

\* a resolved promise is never resolved again, and the 'exit' event of a
\* child leaves pending empty
ResolvedOnce ==
    /\ \A k \in CallIds :
          requests[k].phase = "resolved" =>
              (requests'[k] = requests[k] /\ replies'[k] = replies[k])
    /\ (\E p \in ProcIds : procs[p].state = "dying" /\ procs'[p].state = "gone") =>
          pending' = {}

\* C33: every request of the PythonDaemon gets a distinct id and its promise
\* is resolved exactly once, by the response line that carries its id or by
\* the error of a process exit, after which pending is empty; a response
\* with an unknown or already-answered id resolves nothing
C33_ResolvedExactlyOnce == []PendingIsUnresolved /\ [][ResolvedOnce]_vars

\* a run was failed by the exit of a child process, and the response the
\* daemon wrote for it afterwards ("no code loaded") resolved nothing
C33_Witness ==
    \E k \in Sent :
        /\ requests[k].phase = "resolved"
        /\ replies[k].error = "python daemon exited"
        /\ ranWith[k] = "None"

\* the child processes that are running with the handlers of attachProcess
Attached == {p \in ProcIds : procs[p].state \in {"alive", "looping"}}

\* C34: at most one Python child process is attached to the singleton at any
\* time, concurrent calls made while no process is running spawn a single
\* process, and the exit of a process never fails a request that was sent
\* to a different process that is still running
C34_OneChildProcess ==
    /\ Cardinality(Attached) <= 1
    /\ \A k \in Sent :
          replies[k].error = "python daemon exited" => requests[k].proc \notin Attached

\* the candidate whose index the result of a finished coding run reports
Reported == solutions[result.selectedResult.index]

\* a coding run has returned from executeCodingWorkflow with success = true
CodingRunSucceeded == pc = "done" /\ calls.generate > 0 /\ result.success

\* C35 as stated: whenever a coding run returns success = true, the payload
\* is the data of the candidate whose index selectedResult reports, extended
\* with responseType = "code", and that candidate did not fail
C35_PayloadIsReportedCandidate ==
    CodingRunSucceeded =>
        /\ Reported.ok
        /\ result.data.payload = Reported.data
        /\ result.data.responseType = "code"

\* C35: when a coding run returns and at least one candidate succeeded, the
\* payload is the data of the candidate whose index selectedResult reports,
\* extended with responseType = "code", and that candidate succeeded; when
\* every candidate failed the run still returns success = true, with index 0
\* and a synthesized payload that is no candidate's data
C35_PayloadIsReportedSuccess ==
    CodingRunSucceeded =>
        /\ result.data.responseType = "code"
        /\ IF \E i \in Slots : solutions[i].ok
           THEN /\ Reported.ok
                /\ Reported.index = result.selectedResult.index
                /\ result.data.payload = Reported.data
           ELSE /\ result.selectedResult.index = 0
                /\ result.data.payload.approach = "generation failed"
                /\ \A i \in Slots : result.data.payload # Parsed(i)

\* candidate 0 failed, candidates 1 and 2 succeeded, and the run returned
\* the data of candidate 1
C35_Witness ==
    /\ CodingRunSucceeded
    /\ ~solutions[0].ok /\ solutions[1].ok /\ solutions[2].ok
    /\ result.selectedResult.index = 1
    /\ result.data.payload = solutions[1].data

\* the request handled in this step, when the step handles one
Handling == commandLog'[Len(commandLog')]

\* the step handles a /model/set request that reached setModel
CallsSetModel ==
    /\ Len(commandLog') = Len(commandLog) + 1
    /\ Handling.path = "/model/set"
    /\ Handling.status = 200

\* currentModelIndex is a position of MODEL_CANDIDATES
IndexInRange == currentModelIndex \in 0 .. (Len(MODEL_CANDIDATES) - 1)

\* setModel with an index out of range changes neither currentModelIndex nor
\* proMode and sends nothing; with a valid index it stores the index and
\* leaves proMode false
SetModelEffect ==
    CallsSetModel =>
        LET index == ParseInt(Handling.param).value IN
        IF index \in 0 .. (Len(MODEL_CANDIDATES) - 1)
        THEN currentModelIndex' = index /\ proMode' = FALSE
        ELSE UNCHANGED <<currentModelIndex, proMode, notices>>

\* C36: after any sequence of setModel and toggleProMode commands
\* currentModelIndex is a valid index into MODEL_CANDIDATES; a setModel with
\* an index out of range changes neither currentModelIndex nor proMode and
\* emits nothing, and a setModel with a valid index leaves proMode false
C36_ModelIndexValid == []IndexInRange /\ [][SetModelEffect]_vars

\* pro mode was switched on, a setModel(4) was ignored, and a setModel(2)
\* stored the index and switched pro mode off
C36_Witness ==
    /\ commandLog = <<Handled("/pro/toggle", <<>>, 200),
                      Handled("/model/set", <<"4">>, 200),
                      Handled("/model/set", <<"2">>, 200)>>
    /\ notices = <<ProModeUpdated(TRUE), ProModeUpdated(FALSE), ModelUpdated(2)>>
    /\ currentModelIndex = 2
    /\ ~proMode

\* what a /flow request does when no step fails
FullFlow ==
    <<"200", Calling("reset"), Returned("reset"), Calling("screenshot"),
      Returned("screenshot"), Calling("process"), Returned("process")>>

\* the trace is a beginning of FullFlow, or such a beginning that ends with
\* the call of a step, followed by the failure of that step and nothing more
InOrder(trace) ==
    \/ \E n \in 0 .. Len(FullFlow) : trace = SubSeq(FullFlow, 1, n)
    \/ \E k \in DOMAIN FlowSteps :
          trace = Append(SubSeq(FullFlow, 1, 2 * k), Failed(FlowSteps[k]))

\* C37: a /flow request is answered with 200 before any of its steps runs,
\* then performs reset, screenshot and process in that order, each step
\* starting only after the previous one has completed; a failure in a step
\* stops the remaining steps and leaves the response as it was sent
C37_FlowInOrder ==
    \A f \in FlowIds :
        /\ InOrder(flows[f].trace)
        /\ flows[f].trace # <<>> => flows[f].status = 200
        /\ flows[f].at = "caught" =>
              \E k \in DOMAIN FlowSteps :
                  flows[f].trace[Len(flows[f].trace)] = Failed(FlowSteps[k])

\* one request ran its three steps; the screenshot of the other failed, so
\* its process step was never called and its response stays 200
C37_Witness ==
    /\ flows[1].at = "finished" /\ flows[1].trace = FullFlow
    /\ flows[2].at = "caught" /\ flows[2].status = 200
    /\ flows[2].trace = <<"200", Calling("reset"), Returned("reset"),
                         Calling("screenshot"), Failed("screenshot")>>

====
